---- MODULE Spec2Model ----
(***************************************************************************)
(* Gateway process supervisor of the OpenClaw wrapper                      *)
(* (src/src/config.ts, lines 650-1139: the gateway module with crash       *)
(* tracking, circuit breaker and health monitor that src/src/server.ts     *)
(* imports).                                                               *)
(*                                                                         *)
(* Time is counted in ticks of 30 seconds.  Every timestamp t the code     *)
(* stores (a crashHistory entry, circuitOpenedAt, lastHealthCheck) is      *)
(* held as its age Date.now() - t, which is all the code ever reads of     *)
(* it; the action Tick ages them and stops counting where the code can no  *)
(* longer tell the difference.  Durations shorter than one tick            *)
(* (sleep(750), a backoff sleep of at most 5.2 s, a health probe of at     *)
(* most 5 s, the 10 s minimum lifetime) end at a moment the model chooses, *)
(* in the tick they started in or in the next.  The 20 s readiness timeout *)
(* ends in the tick after the one the polling began in.                    *)
(***************************************************************************)
EXTENDS Integers, Sequences, FiniteSets, TLC

\* ------------------------------------------------------------------ bounds
MaxSpawns     == 2   \* Spec: childProcess.spawn is called at most this often
BreakerSpawns == 5   \* SpecBreaker: the same, for the runs that open the circuit
MaxProcs      == 2   \* child processes alive at the same time
MaxOut        == 3   \* SpecRun: 'data' chunks a command writes
NCallers      == 2   \* concurrent callers of the public operations
MaxHeaders    == 2   \* SpecProxy: headers an inbound request carries
NSockets      == 2   \* SpecBridge: WebSocket clients
MaxFrames     == 2   \* SpecRelay: frames relayed in each direction
MaxFails      == 7   \* SpecBackoff: largest consecutiveFails a start is made with
JitterSteps   == 16  \* SpecBackoff: Math.random() returns k / JitterSteps

\* ------------------------------------------- program constants, in ticks
CRASH_WINDOW_MS          == 2    \* 60_000 ms
MAX_CRASHES_IN_WINDOW    == 5
CIRCUIT_RESET_MS         == 4    \* 120_000 ms
MAX_CONSECUTIVE_FAILS    == 3
HEALTH_CHECK_INTERVAL_MS == 1    \* 30_000 ms
MinLifetimeMs            == 10000  \* the literal 10_000 of the exit handler, in ms
BASE_BACKOFF_MS          == 1000   \* in ms
MAX_BACKOFF_MS           == 30000  \* in ms

NoCode  == -1000     \* runCmd's promise has not resolved
NULL    == 0         \* state.proc === null (process ids start at 1)
NoTime  == -1        \* a null timestamp, a null timer handle

Callers == 1..NCallers
Pids    == 1..MaxProcs

\* (code, signal) pairs an 'exit' event can carry; code -1 stands for null
ExitKinds ==
  { [code |-> 0,  signal |-> "none"],
    [code |-> 1,  signal |-> "none"],
    [code |-> -1, signal |-> "SIGTERM"],
    [code |-> -1, signal |-> "SIGINT"],
    [code |-> -1, signal |-> "SIGKILL"] }

VARIABLES
  configured,   \* what isConfigured() found in the last step: the config file
                \* "present" or "absent" ("unread": the step did not call it)
  state,        \* the module-level GatewayState object
  startOp,      \* position of the async start operation stored in state.starting
  procs,        \* the child processes spawned so far
  spawnCount,   \* number of childProcess.spawn calls so far
  spawnLimit,   \* the bound on spawnCount in this run
  probe,        \* the fetch of the health-check interval callback
  tasks,        \* the callers of the public operations
  results,      \* what the calls that returned in the last step returned
  exited,       \* the 'exit' event the last step handled (NoExit: none)
  probed,       \* how the health probe that ended in the last step ended:
                \* "ok", "failed" ("none": no probe ended)
  cmd,          \* the call of runCmd in progress, or the last one that resolved
  proxy,        \* the request the proxy is forwarding, with the headers it built
  bridge,       \* the WebSocket bridge: the sockets, the registry wsConnections
  backoff       \* the backoff step of startGateway: the sleep it decided on

\* the variables of the gateway supervisor
supervisor == <<configured, state, startOp, procs, spawnCount, spawnLimit, probe, tasks,
                results, exited, probed>>

vars == <<supervisor, cmd, proxy, bridge, backoff>>

\* ------------------------------------------------------------ pure helpers
Min(a, b) == IF a < b THEN a ELSE b

\* the age of a timestamp one tick later, counted up to cap
Older(a, cap) == IF a = NoTime THEN NoTime ELSE Min(a + 1, cap)

\* a variant of recordCrash that never prunes the history
recordCrash_unpruned(s) ==
  LET pushed == Append(s.crashHistory, 0)
  IN  IF Len(pushed) >= MAX_CRASHES_IN_WINDOW
        THEN [s EXCEPT !.crashHistory = pushed, !.circuitOpen = TRUE, !.circuitOpenedAt = 0]
        ELSE [s EXCEPT !.crashHistory = pushed]

\* recordCrash(): push now, prune to the window, open the circuit at the threshold
recordCrash(s) ==
  LET pushed == Append(s.crashHistory, 0)
      InWindow(age) == age < CRASH_WINDOW_MS
      pruned == SelectSeq(pushed, InWindow)
  IN  IF Len(pruned) >= MAX_CRASHES_IN_WINDOW
        THEN [s EXCEPT !.crashHistory = pruned, !.circuitOpen = TRUE, !.circuitOpenedAt = 0]
        ELSE [s EXCEPT !.crashHistory = pruned]

\* checkCircuitBreaker(): allowed, remaining time, and the state it leaves
checkCircuitBreaker(s) ==
  IF ~s.circuitOpen
    THEN [allowed |-> TRUE, remaining |-> 0, st |-> s]
    ELSE LET elapsed == s.circuitOpenedAt
         IN  IF elapsed >= CIRCUIT_RESET_MS
               THEN [allowed |-> TRUE, remaining |-> 0,
                     st |-> [s EXCEPT !.circuitOpen = FALSE, !.circuitOpenedAt = NoTime,
                                      !.crashHistory = <<>>, !.consecutiveFails = 0]]
               ELSE [allowed |-> FALSE, remaining |-> CIRCUIT_RESET_MS - elapsed, st |-> s]

\* a variant of stopHealthMonitor that leaves the interval running
stopHealthMonitor_keep(s) == s

\* stopHealthMonitor(): clearInterval and null the handle
stopHealthMonitor(s) == [s EXCEPT !.healthCheckTimer = NoTime]

\* startHealthMonitor(): the handle is held as the interval of the timer
startHealthMonitor(s) ==
  [stopHealthMonitor(s) EXCEPT !.healthCheckTimer = HEALTH_CHECK_INTERVAL_MS]

\* a variant of IsCrashExit that takes SIGINT for an ordinary signal
IsCrashExit_sigint(code, signal, runtime) ==
  /\ signal # "SIGTERM"
  /\ (code # 0 \/ runtime < MinLifetimeMs)

\* the exit handler's two nested conditions: the exit counts as a crash
IsCrashExit(code, signal, runtime) ==
  /\ signal # "SIGTERM"
  /\ signal # "SIGINT"
  /\ (code # 0 \/ runtime < MinLifetimeMs)

\* the 'exit' handler registered in startGateway, for a process that ran for runtime
exitHandler(s, kind, runtime) ==
  LET s1 == stopHealthMonitor(s)
      s2 == IF IsCrashExit(kind.code, kind.signal, runtime)
              THEN recordCrash([s1 EXCEPT !.consecutiveFails = @ + 1])
              ELSE IF kind.signal # "SIGTERM" /\ kind.signal # "SIGINT"
                     THEN [s1 EXCEPT !.consecutiveFails = 0]
                     ELSE s1
  IN  [s2 EXCEPT !.proc = NULL]

\* the 'error' handler registered in startGateway
errorHandler(s) ==
  LET s1 == stopHealthMonitor(s)
      s2 == recordCrash([s1 EXCEPT !.consecutiveFails = @ + 1])
  IN  [s2 EXCEPT !.proc = NULL]

\* a variant of clearFailures that also forgets the process and its health timer
clearFailures_all(s) ==
  [s EXCEPT !.circuitOpen = FALSE, !.circuitOpenedAt = NoTime,
            !.consecutiveFails = 0, !.crashHistory = <<>>,
            !.proc = NULL, !.healthCheckTimer = NoTime]

\* resetCircuitBreaker(), and the first four assignments of restartGateway()
clearFailures(s) ==
  [s EXCEPT !.circuitOpen = FALSE, !.circuitOpenedAt = NoTime,
            !.consecutiveFails = 0, !.crashHistory = <<>>]

\* a variant of catchStart without the try/catch: the rejection reaches the caller
catchStart_rethrow(settled) == IF settled = "fulfilled" THEN "ok" ELSE "THROWN"

\* what ensureGatewayRunning's try/catch around `await state.starting` returns
catchStart(settled) == IF settled = "fulfilled" THEN "ok" ELSE "not ready"

\* ----------------------------------------------------------------- records
\* peer: the first result a concurrent call of ensureGatewayRunning got while this
\* one awaited; spawned: a restartGateway call has seen a spawn since it was made
IdleTask == [pc |-> "idle", op |-> "none", peer |-> "none", waited |-> FALSE,
             spawned |-> FALSE]
NoResult == [op |-> "none", res |-> "none"]
\* slot 0 takes the return of the synchronous resetCircuitBreaker()
ResultSlots == {0} \cup Callers
NoResults == [c \in ResultSlots |-> NoResult]
\* ran: Date.now() - startTime of the process, as 0 (less than 10 s) or 10000 (more)
\* termed: proc.kill("SIGTERM") was called on it; monitored: the health-check
\* interval was still running when it was
NoProc   == [st |-> "none", ran |-> 0, listening |-> FALSE, termed |-> FALSE,
             monitored |-> FALSE]
NewProc  == [st |-> "alive", ran |-> 0, listening |-> FALSE, termed |-> FALSE,
             monitored |-> FALSE]
NoStart  == [pc |-> "none", waited |-> FALSE]
NoExit   == [code |-> 0, signal |-> "none", runtime |-> -1]

\* runCmd: no call made yet.  out: the chunks appended to the output buffer;
\* timer: the timeout timer is pending; killed: the flag its callback sets;
\* sigkill: proc.kill("SIGKILL") was called; errored: the 'error' handler ran;
\* closed: the (code, signal) of the 'close' event; code: what the promise
\* resolved with (NoCode: still pending)
NoClose == [code |-> -1, signal |-> "none"]
NoCmd ==
  [pc |-> "idle", timeoutMs |-> 0, timer |-> FALSE, killed |-> FALSE, sigkill |-> FALSE,
   out |-> <<>>, errored |-> FALSE, closed |-> NoClose, code |-> NoCode]

\* a Headers object: a function from lower-case header names to values; a
\* value is the list of the comma-separated parts of the header's text, so
\* that the empty text is <<>>
NoHeaders == [n \in {} |-> <<>>]
NoRequest ==
  [method |-> "GET", path |-> "/",
   url |-> [protocol |-> "http", host |-> "wrapper.example", port |-> ""],
   headers |-> NoHeaders, remoteIp |-> ""]
\* gate: how checkSetupAuth let the request through, by DEV_MODE ("dev") or by
\* its password ("password"), "none" when it was not called; ensured: what
\* ensureGatewayRunning returned to the handler ("none": not called); status:
\* the response of a request that was not forwarded
NoProxy ==
  [pc |-> "idle", leg |-> "none", req |-> NoRequest, gate |-> "none", ensured |-> "none",
   status |-> "none", ws |-> NoHeaders, out |-> NoHeaders, protocols |-> <<>>]

\* a client socket (ServerWs) and the WebSocket to the gateway made for it:
\* client and gw are the two sockets' states, toGw and toClient the frames
\* gatewayWs.send and ws.send have been called with so far
Sockets == 1..NSockets
NoSock == [client |-> "none", gw |-> "none", toGw |-> <<>>, toClient |-> <<>>]
\* last: the frame whose message event the last step handled
NoFrame == [from |-> "none", sock |-> 0, type |-> "none", data |-> "none"]
NoBridge ==
  [socks |-> [c \in Sockets |-> NoSock], wsConnections |-> {}, last |-> NoFrame]

\* startGateway has not reached its backoff step.  fails: consecutiveFails at that
\* step; random: the numerator of what Math.random() returned; ms: the argument
\* of sleep (NoTime: sleep was not called)
NoBackoff == [pc |-> "idle", fails |-> 0, random |-> 0, ms |-> NoTime]

InitWith(limit) ==
  /\ configured = "unread"
  /\ spawnLimit = limit
  /\ state = [proc |-> NULL, starting |-> FALSE, crashHistory |-> <<>>,
              consecutiveFails |-> 0, circuitOpen |-> FALSE, circuitOpenedAt |-> NoTime,
              lastHealthCheck |-> NoTime, healthCheckTimer |-> NoTime]
  /\ startOp = NoStart
  /\ procs = [p \in Pids |-> NoProc]
  /\ spawnCount = 0
  /\ probe = "idle"
  /\ tasks = [c \in Callers |-> IdleTask]
  /\ results = NoResults
  /\ exited = NoExit
  /\ probed = "none"
  /\ cmd = NoCmd
  /\ proxy = NoProxy
  /\ bridge = NoBridge
  /\ backoff = NoBackoff

Init == InitWith(MaxSpawns)

\* ------------------------------------------------------------------ spawn
\* childProcess.spawn, the handler registration and startHealthMonitor() of
\* startGateway.  A launch failure is reported by an 'error' event on the next
\* tick of the event loop, before anything else runs: its handler is part of the step.
\* the handle of the next child process: the first one that names no live process
NewPid == CHOOSE p \in Pids : procs[p].st = "none" /\ \A q \in 1..(p - 1) : procs[q].st # "none"

CanSpawn == spawnCount < spawnLimit /\ \E p \in Pids : procs[p].st = "none"

procsAfterSpawn(launched) ==
  IF launched THEN [procs EXCEPT ![NewPid] = NewProc] ELSE procs

stateAfterSpawn(s, launched) ==
  LET s1 == startHealthMonitor([s EXCEPT !.proc = NewPid])
  IN  IF launched THEN s1 ELSE errorHandler(s1)

\* proc.kill("SIGTERM") on the registered process, called in state s
procsAfterKill(pid, s) ==
  IF pid # NULL /\ procs[pid].st = "alive"
    THEN [procs EXCEPT ![pid].termed = TRUE,
                       ![pid].monitored = (@ \/ s.healthCheckTimer # NoTime)]
    ELSE procs

\* something answers HTTP on the gateway port
Reachable == \E p \in Pids : procs[p].st = "alive" /\ procs[p].listening

\* ---------------------------------------------------- ensureGatewayRunning
\* the call returns at once with result r
Return(c, op, r, s) ==
  /\ state' = s
  /\ tasks' = [d \in Callers |->
       IF d = c THEN IdleTask
       ELSE IF tasks[d].pc = "await" /\ tasks[d].peer = "none" /\ op = "ensure"
              THEN [tasks[d] EXCEPT !.peer = r]
              ELSE tasks[d]]
  /\ results' = [NoResults EXCEPT ![c] = [op |-> op, res |-> r]]
  /\ UNCHANGED <<startOp, procs, spawnCount, spawnLimit>>

\* a spawn happens while restartGateway calls are in progress
SawSpawn(t) == IF t.op = "restart" THEN [t EXCEPT !.spawned = TRUE] ELSE t

\* the call awaits state.starting; spawns: this step spawned a process
Await(c, op, spawns) ==
  /\ tasks' = [d \in Callers |->
       IF d = c THEN [IdleTask EXCEPT !.pc = "await", !.op = op,
                                      !.spawned = (spawns /\ op = "restart")]
       ELSE IF spawns THEN SawSpawn(tasks[d]) ELSE tasks[d]]
  /\ results' = NoResults

\* a variant of BeginStart that runs the start operation without storing its promise
BeginStart_unstored(c, op, s) ==
  IF s.consecutiveFails > 0
    THEN /\ state' = s
         /\ startOp' = [pc |-> "backoff", waited |-> FALSE]
         /\ Await(c, op, FALSE)
         /\ UNCHANGED <<procs, spawnCount, spawnLimit>>
    ELSE /\ CanSpawn
         /\ \E launched \in BOOLEAN :
              /\ state' = stateAfterSpawn(s, launched)
              /\ procs' = procsAfterSpawn(launched)
         /\ spawnCount' = spawnCount + 1
         /\ UNCHANGED spawnLimit
         /\ startOp' = [pc |-> "polling", waited |-> FALSE]
         /\ Await(c, op, TRUE)

\* state.starting = (async () => { await startGateway(); ... })(): the part of
\* startGateway that runs before its first await
BeginStart(c, op, s) ==
  IF s.consecutiveFails > 0
    THEN /\ state' = [s EXCEPT !.starting = TRUE]
         /\ startOp' = [pc |-> "backoff", waited |-> FALSE]
         /\ Await(c, op, FALSE)
         /\ UNCHANGED <<procs, spawnCount, spawnLimit>>
    ELSE /\ CanSpawn
         /\ \E launched \in BOOLEAN :
              /\ state' = [stateAfterSpawn(s, launched) EXCEPT !.starting = TRUE]
              /\ procs' = procsAfterSpawn(launched)
         /\ spawnCount' = spawnCount + 1
         /\ UNCHANGED spawnLimit
         /\ startOp' = [pc |-> "polling", waited |-> FALSE]
         /\ Await(c, op, TRUE)

\* a variant of ensureGatewayRunning that looks at state.proc before isConfigured()
ensureGatewayRunning_procFirst(c, op, s) ==
  IF s.proc # NULL THEN Return(c, op, "ok", s)
  ELSE IF configured' = "absent" THEN Return(c, op, "not configured", s)
  ELSE LET circuit == checkCircuitBreaker(s) IN
    IF ~circuit.allowed THEN Return(c, op, "circuit open", circuit.st)
    ELSE IF circuit.st.consecutiveFails >= MAX_CONSECUTIVE_FAILS
      THEN Return(c, op, "too many failures", circuit.st)
    ELSE IF circuit.st.starting
      THEN /\ state' = circuit.st
           /\ Await(c, op, FALSE)
           /\ UNCHANGED <<startOp, procs, spawnCount, spawnLimit>>
    ELSE BeginStart(c, op, circuit.st)

\* a variant of ensureGatewayRunning without the check of consecutiveFails
ensureGatewayRunning_noLockout(c, op, s) ==
  IF configured' = "absent" THEN Return(c, op, "not configured", s)
  ELSE IF s.proc # NULL THEN Return(c, op, "ok", s)
  ELSE LET circuit == checkCircuitBreaker(s) IN
    IF ~circuit.allowed THEN Return(c, op, "circuit open", circuit.st)
    ELSE IF circuit.st.starting
      THEN /\ state' = circuit.st
           /\ Await(c, op, FALSE)
           /\ UNCHANGED <<startOp, procs, spawnCount, spawnLimit>>
    ELSE BeginStart(c, op, circuit.st)

ensureGatewayRunning(c, op, s) ==
  IF configured' = "absent" THEN Return(c, op, "not configured", s)
  ELSE IF s.proc # NULL THEN Return(c, op, "ok", s)
  ELSE LET circuit == checkCircuitBreaker(s) IN
    IF ~circuit.allowed THEN Return(c, op, "circuit open", circuit.st)
    ELSE IF circuit.st.consecutiveFails >= MAX_CONSECUTIVE_FAILS
      THEN Return(c, op, "too many failures", circuit.st)
    ELSE IF circuit.st.starting
      THEN /\ state' = circuit.st
           /\ Await(c, op, FALSE)
           /\ UNCHANGED <<startOp, procs, spawnCount, spawnLimit>>
    ELSE BeginStart(c, op, circuit.st)

\* a new call is served by the first caller that has none in progress
Free(c) == tasks[c].pc = "idle" /\ \A d \in 1..(c - 1) : tasks[d].pc # "idle"

\* the config file exists or not (onboarding and import write it, reset deletes it)
EnsureCall(c) ==
  /\ Free(c)
  /\ configured' \in {"present", "absent"}
  /\ ensureGatewayRunning(c, "ensure", state)
  /\ exited' = NoExit
  /\ probed' = "none"
  /\ UNCHANGED <<cmd, proxy, bridge, backoff>>
  /\ UNCHANGED probe

\* ---------------------------------------------------------- restartGateway
RestartCall(c) ==
  /\ Free(c)
  /\ LET s0 == clearFailures(state) IN
       IF s0.proc # NULL
         THEN /\ configured' = "unread"
              /\ state' = stopHealthMonitor(s0)
              /\ procs' = procsAfterKill(s0.proc, stopHealthMonitor(s0))
              /\ tasks' = [tasks EXCEPT ![c] = [IdleTask EXCEPT !.pc = "sleep", !.op = "restart"]]
              /\ results' = NoResults
              /\ UNCHANGED <<startOp, spawnCount, spawnLimit>>
         ELSE /\ configured' \in {"present", "absent"}
              /\ ensureGatewayRunning(c, "restart", s0)
  /\ exited' = NoExit
  /\ probed' = "none"
  /\ UNCHANGED <<cmd, proxy, bridge, backoff>>
  /\ UNCHANGED probe

\* after `await sleep(750)`: state.proc = null; return ensureGatewayRunning()
RestartWake(c) ==
  /\ tasks[c].pc = "sleep"
  /\ tasks[c].op = "restart"
  /\ configured' \in {"present", "absent"}
  /\ ensureGatewayRunning(c, "restart", [state EXCEPT !.proc = NULL])
  /\ exited' = NoExit
  /\ probed' = "none"
  /\ UNCHANGED <<cmd, proxy, bridge, backoff>>
  /\ UNCHANGED probe

\* ------------------------------------------------------------- stopGateway
StopCall(c) ==
  /\ Free(c)
  /\ LET s0 == stopHealthMonitor(state) IN
       IF s0.proc # NULL
         THEN /\ state' = s0
              /\ procs' = procsAfterKill(s0.proc, s0)
              /\ tasks' = [tasks EXCEPT ![c] = [IdleTask EXCEPT !.pc = "sleep", !.op = "stop"]]
              /\ results' = NoResults
         ELSE /\ state' = s0
              /\ procs' = procs
              /\ tasks' = tasks
              /\ results' = [NoResults EXCEPT ![c] = [op |-> "stop", res |-> "void"]]
  /\ configured' = "unread"
  /\ exited' = NoExit
  /\ probed' = "none"
  /\ UNCHANGED <<cmd, proxy, bridge, backoff>>
  /\ UNCHANGED <<startOp, spawnCount, spawnLimit, probe>>

\* after `await sleep(750)`: state.proc = null
StopWake(c) ==
  /\ tasks[c].pc = "sleep"
  /\ tasks[c].op = "stop"
  /\ state' = [state EXCEPT !.proc = NULL]
  /\ tasks' = [tasks EXCEPT ![c] = IdleTask]
  /\ results' = [NoResults EXCEPT ![c] = [op |-> "stop", res |-> "void"]]
  /\ configured' = "unread"
  /\ exited' = NoExit
  /\ probed' = "none"
  /\ UNCHANGED <<cmd, proxy, bridge, backoff>>
  /\ UNCHANGED <<startOp, procs, spawnCount, spawnLimit, probe>>

\* ----------------------------------------------------- resetCircuitBreaker
ResetCircuitBreaker ==
  /\ state' = clearFailures(state)
  /\ results' = [NoResults EXCEPT ![0] = [op |-> "reset", res |-> "void"]]
  /\ configured' = "unread"
  /\ exited' = NoExit
  /\ probed' = "none"
  /\ UNCHANGED <<cmd, proxy, bridge, backoff>>
  /\ UNCHANGED <<startOp, procs, spawnCount, spawnLimit, probe, tasks>>

\* ------------------------------------------------- the start operation
\* startGateway after `await sleep(backoff)`: spawn, then waitForGatewayReady begins
BackoffDone ==
  /\ startOp.pc = "backoff"
  /\ CanSpawn
  /\ \E launched \in BOOLEAN :
       /\ state' = stateAfterSpawn(state, launched)
       /\ procs' = procsAfterSpawn(launched)
  /\ spawnCount' = spawnCount + 1
  /\ UNCHANGED spawnLimit
  /\ startOp' = [pc |-> "polling", waited |-> FALSE]
  /\ tasks' = [d \in Callers |-> SawSpawn(tasks[d])]
  /\ results' = NoResults
  /\ configured' = "unread"
  /\ exited' = NoExit
  /\ probed' = "none"
  /\ UNCHANGED <<cmd, proxy, bridge, backoff>>
  /\ UNCHANGED probe

\* the promise state.starting settles: .finally clears it, then every awaiting
\* call resumes in its try/catch
Settle(settled) ==
  /\ tasks' = [d \in Callers |-> IF tasks[d].pc = "await" THEN IdleTask ELSE tasks[d]]
  /\ results' = [d \in ResultSlots |->
       IF d \in Callers /\ tasks[d].pc = "await"
         THEN [op |-> tasks[d].op, res |-> catchStart(settled)]
         ELSE NoResult]
  /\ configured' = "unread"
  /\ exited' = NoExit
  /\ probed' = "none"
  /\ UNCHANGED <<cmd, proxy, bridge, backoff>>

\* waitForGatewayReady got a response: the start succeeded
PollReady ==
  /\ startOp.pc = "polling"
  /\ Reachable
  /\ state' = [state EXCEPT !.consecutiveFails = 0, !.lastHealthCheck = 0,
                            !.starting = FALSE]
  /\ startOp' = NoStart
  /\ Settle("fulfilled")
  /\ UNCHANGED <<procs, spawnCount, spawnLimit, probe>>

\* 10 s or more have passed since the process was spawned
Matured(pr) == IF pr.st = "alive" THEN [pr EXCEPT !.ran = MinLifetimeMs] ELSE pr

\* waitForGatewayReady returned false after timeoutMs (20 s): every process
\* alive now was spawned before the polling began
PollTimeout ==
  /\ startOp.pc = "polling"
  /\ startOp.waited
  /\ state' = [recordCrash([state EXCEPT !.consecutiveFails = @ + 1])
                 EXCEPT !.starting = FALSE]
  /\ startOp' = NoStart
  /\ Settle("rejected")
  /\ procs' = [p \in Pids |-> Matured(procs[p])]
  /\ UNCHANGED <<spawnCount, spawnLimit, probe>>

\* ------------------------------------------------------ the child processes
\* the gateway binds its port and answers HTTP
ProcListen(p) ==
  /\ procs[p].st = "alive"
  /\ ~Reachable
  /\ procs' = [procs EXCEPT ![p].listening = TRUE]
  /\ results' = NoResults
  /\ configured' = "unread"
  /\ exited' = NoExit
  /\ probed' = "none"
  /\ UNCHANGED <<cmd, proxy, bridge, backoff>>
  /\ UNCHANGED <<state, startOp, spawnCount, spawnLimit, probe, tasks>>

\* the process has run for 10 s
ProcMature(p) ==
  /\ procs[p].st = "alive"
  /\ procs[p].ran < MinLifetimeMs
  /\ procs' = [procs EXCEPT ![p] = Matured(@)]
  /\ results' = NoResults
  /\ configured' = "unread"
  /\ exited' = NoExit
  /\ probed' = "none"
  /\ UNCHANGED <<cmd, proxy, bridge, backoff>>
  /\ UNCHANGED <<state, startOp, spawnCount, spawnLimit, probe, tasks>>

\* the process exits: its 'exit' event runs the handler
ProcExit(p, kind) ==
  /\ procs[p].st = "alive"
  /\ state' = exitHandler(state, kind, procs[p].ran)
  /\ procs' = [procs EXCEPT ![p] = NoProc]
  /\ results' = NoResults
  /\ configured' = "unread"
  /\ exited' = [code |-> kind.code, signal |-> kind.signal, runtime |-> procs[p].ran]
  /\ probed' = "none"
  /\ UNCHANGED <<cmd, proxy, bridge, backoff>>
  /\ UNCHANGED <<startOp, spawnCount, spawnLimit, probe, tasks>>

\* ------------------------------------------------------- health monitoring
\* the probe got a response with status < 500
HealthOk ==
  /\ probe = "inflight"
  /\ Reachable
  /\ state' = [state EXCEPT !.lastHealthCheck = 0, !.consecutiveFails = 0]
  /\ probe' = "idle"
  /\ results' = NoResults
  /\ configured' = "unread"
  /\ exited' = NoExit
  /\ probed' = "ok"
  /\ UNCHANGED <<cmd, proxy, bridge, backoff>>
  /\ UNCHANGED <<startOp, procs, spawnCount, spawnLimit, tasks>>

\* a variant of HealthFail that counts the failed probe as a crash
HealthFail_counts ==
  /\ probe = "inflight"
  /\ state' = recordCrash([state EXCEPT !.consecutiveFails = @ + 1])
  /\ probe' = "idle"
  /\ results' = NoResults
  /\ configured' = "unread"
  /\ exited' = NoExit
  /\ probed' = "failed"
  /\ UNCHANGED <<cmd, proxy, bridge, backoff>>
  /\ UNCHANGED <<startOp, procs, spawnCount, spawnLimit, tasks>>

\* the probe failed, timed out or got a 5xx response
HealthFail ==
  /\ probe = "inflight"
  /\ probe' = "idle"
  /\ results' = NoResults
  /\ configured' = "unread"
  /\ exited' = NoExit
  /\ probed' = "failed"
  /\ UNCHANGED <<cmd, proxy, bridge, backoff>>
  /\ UNCHANGED <<state, startOp, procs, spawnCount, spawnLimit, tasks>>

\* -------------------------------------------------------------------- time
\* thirty seconds pass.  The health-check interval (30 s) fires with the tick:
\* its callback returns if no process is registered and else starts its fetch,
\* which ends (response, error or the 5 s abort) before the next tick
Tick ==
  /\ \A c \in Callers : ~(tasks[c].pc = "sleep" /\ tasks[c].waited)
  /\ ~(startOp.pc # "none" /\ startOp.waited)
  /\ probe = "idle"
  /\ state' = [state EXCEPT
       !.crashHistory = [i \in 1..Len(@) |-> Older(@[i], CRASH_WINDOW_MS)],
       !.circuitOpenedAt = Older(@, CIRCUIT_RESET_MS),
       !.lastHealthCheck = Older(@, 1)]
  /\ probe' = IF state.healthCheckTimer # NoTime /\ state.proc # NULL
                THEN "inflight" ELSE "idle"
  /\ startOp' = [startOp EXCEPT !.waited = (startOp.pc # "none")]
  /\ procs' = [p \in Pids |-> Matured(procs[p])]
  /\ tasks' = [c \in Callers |-> [tasks[c] EXCEPT !.waited = (tasks[c].pc = "sleep")]]
  /\ results' = NoResults
  /\ configured' = "unread"
  /\ exited' = NoExit
  /\ probed' = "none"
  /\ UNCHANGED <<cmd, proxy, bridge, backoff>>
  /\ UNCHANGED <<spawnCount, spawnLimit>>

Next ==
  \/ \E c \in Callers : EnsureCall(c)
  \/ \E c \in Callers : RestartCall(c)
  \/ \E c \in Callers : RestartWake(c)
  \/ \E c \in Callers : StopCall(c)
  \/ \E c \in Callers : StopWake(c)
  \/ ResetCircuitBreaker
  \/ BackoffDone
  \/ PollReady
  \/ PollTimeout
  \/ \E p \in Pids : ProcListen(p)
  \/ \E p \in Pids : ProcMature(p)
  \/ \E p \in Pids, kind \in ExitKinds : ProcExit(p, kind)
  \/ HealthOk
  \/ HealthFail
  \/ Tick

Spec == Init /\ [][Next]_vars

\* ------------------------------------------------- runs that open the circuit
\* the supervisor driven by one caller of ensureGatewayRunning only, with
\* enough spawns for five crashes to fall into one crash window
InitBreaker == InitWith(BreakerSpawns)

NextBreaker ==
  \/ EnsureCall(1)
  \/ BackoffDone
  \/ PollReady
  \/ PollTimeout
  \/ \E p \in Pids : ProcListen(p)
  \/ \E p \in Pids, kind \in ExitKinds : ProcExit(p, kind)
  \/ HealthOk
  \/ HealthFail
  \/ Tick

SpecBreaker == InitBreaker /\ [][NextBreaker]_vars

\* --------------------------------------------------------------------- runCmd
\* opts.timeoutMs of a call (0 also stands for an absent option)
TimeoutInputs == {-1, 0, 1}

\* (code, signal) pairs of the 'close' event of a command that was spawned;
\* code -1 stands for null
CloseKinds ==
  { [code |-> 0,   signal |-> "none"],
    [code |-> 1,   signal |-> "none"],
    [code |-> 124, signal |-> "none"],
    [code |-> 127, signal |-> "none"],
    [code |-> -1,  signal |-> "SIGTERM"],
    [code |-> -1,  signal |-> "SIGKILL"] }

\* the 'close' event that follows the 'error' event of a failed spawn
FailedSpawnClose == [code |-> -2, signal |-> "none"]

\* a variant of closeCode that reports a signal death as success
closeCode_signal(killed, code, signal) ==
  IF killed THEN 124 ELSE IF code # -1 THEN code ELSE 0

\* killed ? 124 : (code ?? (signal ? 1 : 0))
closeCode(killed, code, signal) ==
  IF killed THEN 124
  ELSE IF code # -1 THEN code
  ELSE IF signal # "none" THEN 1 ELSE 0

\* a variant of clearTimer that leaves the timer pending
clearTimer_keep(c) == c

\* if (timer) clearTimeout(timer)
clearTimer(c) == [c EXCEPT !.timer = FALSE]

\* resolve(...): the promise keeps the first value it is resolved with
resolve(c, code) == IF c.code = NoCode THEN [c EXCEPT !.code = code] ELSE c

\* runCmd(cmd, args, {timeoutMs}): spawn, arm the timer, register the handlers
RunCmd(timeoutMs) ==
  /\ cmd.pc \in {"idle", "closed"}
  /\ cmd' = [NoCmd EXCEPT !.pc = "running", !.timeoutMs = timeoutMs,
                          !.timer = (timeoutMs # 0 /\ timeoutMs > 0)]
  /\ UNCHANGED <<supervisor, proxy, bridge, backoff>>

\* a 'data' event of stdout or stderr
CmdData ==
  /\ cmd.pc = "running"
  /\ Len(SelectSeq(cmd.out, LAMBDA x : x = "data")) < MaxOut
  /\ cmd' = [cmd EXCEPT !.out = Append(@, "data")]
  /\ UNCHANGED <<supervisor, proxy, bridge, backoff>>

\* the timeout timer fires
CmdTimeout ==
  /\ cmd.timer
  /\ cmd' = [cmd EXCEPT !.timer = FALSE, !.killed = TRUE,
                        !.out = Append(@, "[timeout]"), !.sigkill = TRUE]
  /\ UNCHANGED <<supervisor, proxy, bridge, backoff>>

\* the 'error' event of a spawn that failed: it comes before any other event
CmdError ==
  /\ cmd.pc = "running"
  /\ cmd.out = <<>>
  /\ LET c1 == clearTimer(cmd)
         c2 == [c1 EXCEPT !.out = Append(@, "[spawn error]"), !.errored = TRUE,
                          !.pc = "errored"]
     IN  cmd' = resolve(c2, 127)
  /\ UNCHANGED <<supervisor, proxy, bridge, backoff>>

\* the 'close' event
CmdClose(kind) ==
  /\ \/ cmd.pc = "running" /\ kind \in CloseKinds
     \/ cmd.pc = "errored" /\ kind = FailedSpawnClose
  /\ LET c1 == clearTimer(cmd)
         c2 == [c1 EXCEPT !.closed = kind, !.pc = "closed"]
     IN  cmd' = resolve(c2, closeCode(cmd.killed, kind.code, kind.signal))
  /\ UNCHANGED <<supervisor, proxy, bridge, backoff>>

InitRun == InitWith(0)

NextRun ==
  \/ \E t \in TimeoutInputs : RunCmd(t)
  \/ CmdData
  \/ CmdTimeout
  \/ CmdError
  \/ \E kind \in CloseKinds \cup {FailedSpawnClose} : CmdClose(kind)

SpecRun == InitRun /\ [][NextRun]_vars

\* --------------------------------------------------------- the gateway proxy
\* src/src/server.ts, lines 707-1066: the headers the wrapper builds for the
\* request it sends to the gateway, on the HTTP path (proxyToGateway) and on
\* the WebSocket path (the upgrade branch of fetch, then websocket.open).

HOP_BY_HOP_HEADERS_short ==
  {"connection", "proxy-authenticate", "proxy-authorization", "te", "trailers",
   "transfer-encoding", "upgrade"}
HOP_BY_HOP_HEADERS ==
  {"connection", "keep-alive", "proxy-authenticate", "proxy-authorization", "te",
   "trailers", "transfer-encoding", "upgrade"}

WS_STRIP_HEADERS ==
  {"connection", "upgrade", "sec-websocket-key", "sec-websocket-extensions",
   "sec-websocket-version", "sec-websocket-accept", "content-length", "host"}

GATEWAY_TARGET == "http://127.0.0.1:18789"
BearerToken == "Bearer gateway-token"

\* the header names a request may carry: every name the proxy code tests,
\* and one it does not ("accept")
HeaderNames ==
  {"connection", "keep-alive", "proxy-authenticate", "proxy-authorization", "te",
   "trailers", "transfer-encoding", "upgrade", "sec-websocket-key",
   "sec-websocket-extensions", "sec-websocket-version", "sec-websocket-accept",
   "sec-websocket-protocol", "content-length", "host", "x-forwarded-for",
   "x-forwarded-proto", "x-forwarded-host", "x-forwarded-port", "x-forwarded-by",
   "x-real-ip", "authorization", "origin", "accept"}

PeerIp == "10.0.0.1"
RemoteIps == {"", "unknown", PeerIp}     \* "": server.requestIP(req) is null

HeaderValues(n) ==
  CASE n = "x-forwarded-for"   -> {<<>>, <<PeerIp>>, <<"10.0.0.2">>, <<"10.0.0.2", PeerIp>>}
    [] n = "x-forwarded-proto" -> {<<>>, <<"https">>}
    [] n = "x-forwarded-host"  -> {<<>>, <<"public.example">>}
    [] n = "authorization"     -> {<<>>, <<"Basic setup-password">>, <<"Basic wrong-password">>,
                                   <<"Bearer client-token">>}
    [] n = "origin"            -> {<<>>, <<"https://public.example">>}
    [] n = "upgrade"           -> {<<"websocket">>, <<"h2c">>}
    [] n = "connection"        -> {<<"keep-alive", "upgrade">>}
    [] n = "sec-websocket-protocol" -> {<<"chat", "v2">>}
    [] OTHER                   -> {<<"v">>}

RECURSIVE NameSets(_)
NameSets(k) ==
  IF k = 0 THEN {{}}
  ELSE LET smaller == NameSets(k - 1)
       IN  smaller \cup {S \cup {n} : S \in smaller, n \in HeaderNames}

HeaderMaps ==
  UNION {{h \in [S -> UNION {HeaderValues(n) : n \in S}] : \A n \in S : h[n] \in HeaderValues(n)}
         : S \in NameSets(MaxHeaders)}

Urls ==
  {[protocol |-> "http", host |-> "wrapper.example", port |-> ""],
   [protocol |-> "https", host |-> "wrapper.example", port |-> ""],
   [protocol |-> "http", host |-> "wrapper.example:8080", port |-> "8080"]}

\* "/setup/healthz" is a path of the routes table, "/setup/other" is not
Paths == {"/healthz", "/app", "/setup/healthz", "/setup/other"}

Requests ==
  [method : {"GET", "POST"}, path : Paths, url : Urls, headers : HeaderMaps,
   remoteIp : RemoteIps]

\* Headers.has / get / set / delete
has(h, n) == n \in DOMAIN h
set(h, n, v) == [x \in DOMAIN h \cup {n} |-> IF x = n THEN v ELSE h[x]]
delete(h, S) == [x \in DOMAIN h \ S |-> h[x]]
\* a header's text taken as a condition: absent (null) and "" are both false
truthy(h, n) == has(h, n) /\ h[n] # <<>>
Parts(v) == {v[i] : i \in 1..Len(v)}

\* the steps of buildProxyHeaders, in the order of the code
withoutHopByHop(h) == delete(h, HOP_BY_HOP_HEADERS)

existingForwardedFor(h) == IF has(h, "x-forwarded-for") THEN h["x-forwarded-for"] ELSE <<>>

usable(ip) == ip # "" /\ ip # "unknown"

withForwardedFor_always(h, remoteIp) ==
  IF ~usable(remoteIp) THEN h
  ELSE set(h, "x-forwarded-for", existingForwardedFor(h) \o <<remoteIp>>)

withForwardedFor(h, remoteIp) ==
  IF ~usable(remoteIp) THEN h
  ELSE IF existingForwardedFor(h) = <<>>
    THEN set(h, "x-forwarded-for", <<remoteIp>>)
  ELSE IF remoteIp \notin Parts(existingForwardedFor(h))
    THEN set(h, "x-forwarded-for", existingForwardedFor(h) \o <<remoteIp>>)
  ELSE h

realIp(existing, remoteIp) == IF existing # <<>> THEN existing[1] ELSE remoteIp

withRealIp(h, existing, remoteIp) ==
  IF usable(realIp(existing, remoteIp))
    THEN set(h, "x-real-ip", <<realIp(existing, remoteIp)>>)
    ELSE h

proto(h, url) ==
  IF has(h, "x-forwarded-proto") THEN h["x-forwarded-proto"] ELSE <<url.protocol>>

withForwardedProto(h, url) ==
  IF ~has(h, "x-forwarded-proto") /\ proto(h, url) # <<>>
    THEN set(h, "x-forwarded-proto", proto(h, url))
    ELSE h

host(h, url) ==
  IF truthy(h, "x-forwarded-host") THEN h["x-forwarded-host"]
  ELSE IF truthy(h, "host") THEN h["host"]
  ELSE <<url.host>>

withForwardedHost(h, url) ==
  IF ~has(h, "x-forwarded-host") /\ host(h, url) # <<>>
    THEN set(h, "x-forwarded-host", host(h, url))
    ELSE h

port(h, url) ==
  IF url.port # "" THEN url.port ELSE IF proto(h, url) = <<"https">> THEN "443" ELSE "80"

withForwardedPort(h, url) ==
  IF ~has(h, "x-forwarded-port") THEN set(h, "x-forwarded-port", <<port(h, url)>>) ELSE h

\* lines 743-757: the x-forwarded-for the request came with decides x-real-ip
withClientIp(h, remoteIp) ==
  withRealIp(withForwardedFor(h, remoteIp), existingForwardedFor(h), remoteIp)

buildProxyHeaders(req) ==
  set(withForwardedPort(
        withForwardedHost(
          withForwardedProto(
            withClientIp(withoutHopByHop(req.headers), req.remoteIp),
            req.url),
          req.url),
        req.url),
      "x-forwarded-by", <<"openclaw-wrapper">>)

buildWsClientOptions(rawHeaders) ==
  [protocols |-> IF has(rawHeaders, "sec-websocket-protocol")
                   THEN rawHeaders["sec-websocket-protocol"] ELSE <<>>,
   headers   |-> delete(rawHeaders, WS_STRIP_HEADERS \cup {"sec-websocket-protocol"})]

\* proxyToGateway, lines 801-803 and 807-809
withAuthorization(h) ==
  IF ~has(h, "authorization") THEN set(h, "authorization", <<BearerToken>>) ELSE h

withOrigin(h) == IF has(h, "origin") THEN set(h, "origin", <<GATEWAY_TARGET>>) ELSE h

\* lines 814-816 and 988-990
stripProxyHeaders(h) ==
  delete(h, {"x-forwarded-for", "x-forwarded-proto", "x-forwarded-host"})

withoutContentLength(h, method) ==
  IF method \in {"GET", "HEAD"} THEN delete(h, {"content-length"}) ELSE h

\* the headers proxyToGateway hands to fetch
proxyToGatewayHeaders(req) ==
  withoutContentLength(
    stripProxyHeaders(withOrigin(withAuthorization(buildProxyHeaders(req)))),
    req.method)

\* websocket.open, lines 978-980 and 983-985: a plain object, read by key
wsAuthorization(h) ==
  IF ~truthy(h, "authorization") THEN set(h, "authorization", <<BearerToken>>) ELSE h

wsOrigin(h) == IF truthy(h, "origin") THEN set(h, "origin", <<GATEWAY_TARGET>>) ELSE h

\* the headers websocket.open hands to the WebSocket to the gateway
wsOpenHeaders(rawHeaders) ==
  stripProxyHeaders(wsOrigin(wsAuthorization(buildWsClientOptions(rawHeaders).headers)))

IsUpgrade(req) == has(req.headers, "upgrade") /\ req.headers["upgrade"] = <<"websocket">>

\* decodeBasicPassword: the password of a Basic credential, NoPassword (null)
\* for any other header text
NoPassword == "(null)"
SETUP_PASSWORD == "setup-password"

decodeBasicPassword(header) ==
  CASE header = <<"Basic setup-password">> -> "setup-password"
    [] header = <<"Basic wrong-password">> -> "wrong-password"
    [] OTHER -> NoPassword

\* checkSetupAuth: "ok" for null, else the status of the response it returns
checkSetupAuth_open(req, devMode, passwordSet) == "ok"
checkSetupAuth(req, devMode, passwordSet) ==
  IF devMode THEN "ok"
  ELSE IF ~passwordSet THEN "500"
  ELSE IF decodeBasicPassword(IF has(req.headers, "authorization")
                                THEN req.headers["authorization"] ELSE <<>>) # SETUP_PASSWORD
    THEN "401"
  ELSE "ok"

\* DEV_MODE and whether SETUP_PASSWORD is set, as far as checkSetupAuth can tell
\* them apart
GateConfigs ==
  {[devMode |-> TRUE, passwordSet |-> TRUE], [devMode |-> FALSE, passwordSet |-> FALSE],
   [devMode |-> FALSE, passwordSet |-> TRUE]}

\* what ensureGatewayRunning returns to an awaiting handler: { ok: true } or
\* { ok: false, reason }; it does not throw
EnsureOutcomes == {"ok", "failed"}

Routed(req) == req.method = "GET" /\ req.path = "/setup/healthz"
UnderSetup(path) == path \in {"/setup/healthz", "/setup/other"}

Refused(status) == [NoProxy EXCEPT !.pc = "responded", !.status = status]

\* checkSetupAuth returned null
Passed(cfg) == IF cfg.devMode THEN "dev" ELSE "password"

\* fetch, for a request that is not a WebSocket upgrade: the routes, the
\* redirect to /setup, the password gate, ensureGatewayRunning, then
\* proxyToGateway up to its call of fetch
ProxyHttp ==
  /\ proxy.pc = "idle"
  /\ \E req \in Requests, conf \in BOOLEAN, cfg \in GateConfigs :
     \E ensured \in IF conf THEN EnsureOutcomes ELSE {"none"} :
       /\ ~IsUpgrade(req)
       /\ proxy' =
            IF Routed(req) THEN Refused("routed")
            ELSE IF ~conf /\ ~UnderSetup(req.path) THEN Refused("302")
            ELSE IF req.path # "/healthz" /\ checkSetupAuth(req, cfg.devMode, cfg.passwordSet) # "ok"
              THEN Refused(checkSetupAuth(req, cfg.devMode, cfg.passwordSet))
            ELSE [NoProxy EXCEPT !.pc = "sent", !.leg = "http", !.req = req,
                                 !.gate = IF req.path # "/healthz" THEN Passed(cfg) ELSE "none",
                                 !.ensured = ensured,
                                 !.out = proxyToGatewayHeaders(req)]
  /\ UNCHANGED <<supervisor, cmd, bridge, backoff>>

\* the handler returns: proxyToGateway with the gateway's response or 502, or
\* one of the responses made before forwarding
ProxyReturn ==
  /\ \/ proxy.pc = "sent" /\ proxy.leg = "http"
     \/ proxy.pc = "responded"
  /\ proxy' = NoProxy
  /\ UNCHANGED <<supervisor, cmd, bridge, backoff>>

\* fetch, for a WebSocket upgrade: isConfigured, the password gate,
\* ensureGatewayRunning, then server.upgrade with the headers of
\* buildProxyHeaders as the socket's data
WsUpgrade ==
  /\ proxy.pc = "idle"
  /\ \E req \in {r \in Requests : IsUpgrade(r)}, conf \in BOOLEAN, cfg \in GateConfigs,
        ensured \in EnsureOutcomes, success \in BOOLEAN :
       /\ proxy' =
            IF ~conf THEN Refused("503")
            ELSE IF checkSetupAuth(req, cfg.devMode, cfg.passwordSet) # "ok"
              THEN Refused(checkSetupAuth(req, cfg.devMode, cfg.passwordSet))
            ELSE IF ~success
              THEN [Refused("500") EXCEPT !.leg = "ws", !.req = req, !.gate = Passed(cfg),
                                          !.ensured = ensured]
            ELSE [NoProxy EXCEPT !.pc = "upgraded", !.leg = "ws", !.req = req,
                                 !.gate = Passed(cfg), !.ensured = ensured,
                                 !.ws = buildProxyHeaders(req)]
  /\ UNCHANGED <<supervisor, cmd, bridge, backoff>>

\* websocket.open: the WebSocket to the gateway is created
WsOpen ==
  /\ proxy.pc = "upgraded"
  /\ proxy' = [proxy EXCEPT !.pc = "sent", !.out = wsOpenHeaders(proxy.ws),
                            !.protocols = buildWsClientOptions(proxy.ws).protocols]
  /\ UNCHANGED <<supervisor, cmd, bridge, backoff>>

\* websocket.close, or the gateway's socket closing
WsClose ==
  /\ proxy.pc = "sent"
  /\ proxy.leg = "ws"
  /\ proxy' = NoProxy
  /\ UNCHANGED <<supervisor, cmd, bridge, backoff>>

InitProxy == InitWith(0)

NextProxy ==
  \/ ProxyHttp
  \/ ProxyReturn
  \/ WsUpgrade
  \/ WsOpen
  \/ WsClose

SpecProxy == InitProxy /\ [][NextProxy]_vars

\* ------------------------------------------------------- the WebSocket bridge
\* src/src/server.ts, lines 969-1066: the handlers of Bun.serve's websocket
\* and of the WebSocket to the gateway.  Each handler runs to its end before
\* the next event is handled.  A socket that close() was called on is
\* "closing" until its close event is handled.

Frames == [type : {"text", "binary"}, data : {"a", "b"}]

\* ws.close() and gatewayWs.close()
wsClose(s) == IF s.client = "open" THEN [s EXCEPT !.client = "closing"] ELSE s
gatewayWsClose(s) ==
  IF s.gw \in {"connecting", "open"} THEN [s EXCEPT !.gw = "closing"] ELSE s

\* websocket.open: the socket to the gateway is created; if the constructor
\* throws the client socket is closed
BridgeOpen(c) ==
  /\ bridge.socks[c].client = "none"
  /\ \E created \in BOOLEAN :
       bridge' = [bridge EXCEPT
         !.socks[c] = IF created THEN [@ EXCEPT !.client = "open", !.gw = "connecting"]
                      ELSE [@ EXCEPT !.client = "closing"],
         !.last = NoFrame]
  /\ UNCHANGED <<supervisor, cmd, proxy, backoff>>

\* gatewayWs.onopen
onopen(b, c) == [b EXCEPT !.socks[c].gw = "open", !.wsConnections = @ \cup {c}]

GwOpen(c) ==
  /\ bridge.socks[c].gw = "connecting"
  /\ bridge' = [onopen(bridge, c) EXCEPT !.last = NoFrame]
  /\ UNCHANGED <<supervisor, cmd, proxy, backoff>>

\* gatewayWs.onmessage: a text frame arrives as a string and is sent as one, a
\* binary frame arrives as an ArrayBuffer and is sent as its bytes.  ws.send is
\* called whatever the client socket's state; on a socket that is not open it
\* has no effect.
onmessage_asText(s, f) == [s EXCEPT !.toClient = Append(@, [f EXCEPT !.type = "text"])]
onmessage(s, f) == [s EXCEPT !.toClient = Append(@, f)]

GwMessage(c) ==
  /\ bridge.socks[c].gw \in {"open", "closing"}
  /\ Len(bridge.socks[c].toClient) < MaxFrames
  /\ \E f \in Frames :
       bridge' = [bridge EXCEPT
         !.socks[c] = onmessage(@, f),
         !.last = [from |-> "gw", sock |-> c, type |-> f.type, data |-> f.data]]
  /\ UNCHANGED <<supervisor, cmd, proxy, backoff>>

\* gatewayWs.onerror, and gatewayWs.onclose: the same two statements; the
\* close event follows the error event
onclose(b, c) == [b EXCEPT !.wsConnections = @ \ {c}, !.socks[c] = wsClose(@)]

GwError(c) ==
  /\ bridge.socks[c].gw \in {"connecting", "open"}
  /\ bridge' = [onclose(bridge, c) EXCEPT !.socks[c].gw = "closing", !.last = NoFrame]
  /\ UNCHANGED <<supervisor, cmd, proxy, backoff>>

GwClose(c) ==
  /\ bridge.socks[c].gw \in {"open", "closing"}
  /\ bridge' = [onclose(bridge, c) EXCEPT !.socks[c].gw = "closed", !.last = NoFrame]
  /\ UNCHANGED <<supervisor, cmd, proxy, backoff>>

\* websocket.message: sent on only when the socket is registered and open
message(b, c, f) ==
  IF c \in b.wsConnections /\ b.socks[c].gw = "open"
    THEN [b.socks[c] EXCEPT !.toGw = Append(@, f)]
    ELSE b.socks[c]

ClientMessage(c) ==
  /\ bridge.socks[c].client = "open"
  /\ Len(bridge.socks[c].toGw) < MaxFrames
  /\ \E f \in Frames :
       bridge' = [bridge EXCEPT
         !.socks[c] = message(bridge, c, f),
         !.last = [from |-> "client", sock |-> c, type |-> f.type, data |-> f.data]]
  /\ UNCHANGED <<supervisor, cmd, proxy, backoff>>

\* websocket.close: the client went away, or the close the server asked for is
\* done
close(b, c) ==
  IF c \in b.wsConnections
    THEN [b EXCEPT !.wsConnections = @ \ {c}, !.socks[c] = gatewayWsClose(@)]
    ELSE b

ClientClose(c) ==
  /\ bridge.socks[c].client \in {"open", "closing"}
  /\ bridge' = [close(bridge, c) EXCEPT !.socks[c].client = "closed", !.last = NoFrame]
  /\ UNCHANGED <<supervisor, cmd, proxy, backoff>>

\* the sockets' lifetimes, for all clients; frames change none of client, gw
\* and wsConnections, and are left out
InitBridge == InitWith(0)

NextBridge ==
  \E c \in Sockets :
    \/ BridgeOpen(c)
    \/ GwOpen(c)
    \/ GwError(c)
    \/ GwClose(c)
    \/ ClientClose(c)

SpecBridge == InitBridge /\ [][NextBridge]_vars

\* the same with the scheduling the runtime guarantees: a connection attempt
\* ends (it opens or fails), and a close that was asked for is carried out.
\* A socket that is open may stay open for ever.
FairBridge ==
  \A c \in Sockets :
    /\ WF_vars(bridge.socks[c].gw = "connecting" /\ (GwOpen(c) \/ GwError(c)))
    /\ WF_vars(bridge.socks[c].gw = "closing" /\ GwClose(c))
    /\ WF_vars(bridge.socks[c].client = "closing" /\ ClientClose(c))

SpecBridgeFair == SpecBridge /\ FairBridge

\* one client, with the frames
InitRelay == InitWith(0)

NextRelay ==
  \/ BridgeOpen(1)
  \/ GwOpen(1)
  \/ GwMessage(1)
  \/ GwError(1)
  \/ GwClose(1)
  \/ ClientMessage(1)
  \/ ClientClose(1)

SpecRelay == InitRelay /\ [][NextRelay]_vars

\* ------------------------------------------------------ the start backoff
RECURSIVE Pow2(_)
Pow2(n) == IF n = 0 THEN 1 ELSE 2 * Pow2(n - 1)

\* a variant of calculateBackoff without the cap MAX_BACKOFF_MS
calculateBackoff_uncapped(attempt, random) ==
  LET exponential == BASE_BACKOFF_MS * Pow2(attempt)
  IN  exponential + ((3 * random * exponential) \div (10 * JitterSteps))

\* calculateBackoff(attempt) when Math.random() returns random / JitterSteps:
\* Math.floor(exponential + jitter), jitter = Math.random() * 0.3 * exponential
calculateBackoff(attempt, random) ==
  LET exponential == Min(BASE_BACKOFF_MS * Pow2(attempt), MAX_BACKOFF_MS)
  IN  exponential + ((3 * random * exponential) \div (10 * JitterSteps))

\* startGateway reaches `if (state.consecutiveFails > 0)`: it sleeps for the
\* backoff, or goes on to spawn at once
StartBackoff ==
  /\ backoff.pc = "idle"
  /\ \E fails \in 0..MaxFails, random \in 0..(JitterSteps - 1) :
       backoff' = IF fails > 0
         THEN [pc |-> "sleep", fails |-> fails, random |-> random,
               ms |-> calculateBackoff(fails, random)]
         ELSE [pc |-> "spawn", fails |-> fails, random |-> 0, ms |-> NoTime]
  /\ UNCHANGED <<supervisor, cmd, proxy, bridge>>

\* the sleep is over, or the spawn is made: the start goes on
StartBackoffDone ==
  /\ backoff.pc # "idle"
  /\ backoff' = NoBackoff
  /\ UNCHANGED <<supervisor, cmd, proxy, bridge>>

InitBackoff == InitWith(0)

NextBackoff == StartBackoff \/ StartBackoffDone

SpecBackoff == InitBackoff /\ [][NextBackoff]_vars

\* ===================================================================== claims
StopSignals == {"SIGTERM", "SIGINT"}

\* the crash history after recordCrash() ran on history h
Recorded(h) ==
  LET InWindow(age) == age < CRASH_WINDOW_MS
  IN  Append(SelectSeq(h, InWindow), 0)

\* C1: a call of ensureRunning() that was awaiting a start while a concurrent
\* call (made with the configuration present) returned resolves to the outcome
\* that concurrent call got: all concurrent calls resolve to the same outcome.
C1_SameOutcome ==
  [][\A c \in Callers :
       (results'[c].op = "ensure" /\ tasks[c].peer \notin {"none", "not configured"})
         => results'[c].res = tasks[c].peer]_vars

\* C2: while the circuit is open and the cooldown has not elapsed, every call of
\* ensureRunning() made with the configuration present returns the circuit-open
\* failure, and no step spawns a backend process.
C2_OpenRefuses ==
  [][(state.circuitOpen /\ state.circuitOpenedAt < CIRCUIT_RESET_MS)
       => /\ configured' = "present"
               => \E c \in Callers : results'[c] = [op |-> "ensure", res |-> "circuit open"]
          /\ spawnCount' = spawnCount]_vars

\* C3: once the cooldown has elapsed on an open circuit, the next call of
\* ensureRunning() (configuration present) clears the circuit and begins a start.
C3_HalfOpen ==
  [][(state.circuitOpen /\ state.circuitOpenedAt >= CIRCUIT_RESET_MS /\ configured' = "present")
       => (~state'.circuitOpen /\ state'.starting /\ state'.consecutiveFails = 0
           /\ startOp'.pc = "polling")]_vars

\* C4: ensureRunning() returns ok only when no start is in flight any more, that
\* is after the readiness of the process the start spawned has been confirmed.
C4_OkAfterReady ==
  \A c \in Callers :
    (results[c].op = "ensure" /\ results[c].res = "ok") => ~state.starting

C6_RestartSpawns ==
  [][\A c \in Callers :
       (results'[c].op = "restart" /\ results'[c].res # "not configured")
         => (tasks[c].spawned \/ spawnCount' > spawnCount)]_vars

\* C7: the exit of a process that ran for 10 s or more (and was not stopped
\* by SIGTERM or SIGINT) sets consecutiveFails to 0 and leaves crashHistory as
\* it was, whatever the exit code.
C7_LongRunResets ==
  [][(exited' # NoExit /\ exited'.runtime >= MinLifetimeMs
        /\ exited'.signal \notin StopSignals)
       => (state'.consecutiveFails = 0 /\ state'.crashHistory = state.crashHistory)]_vars

C9_TimeoutTerminates ==
  [][(startOp.pc = "polling" /\ startOp'.pc = "none"
        /\ state'.consecutiveFails > state.consecutiveFails)
       => /\ state'.proc = NULL
          /\ \A p \in Pids : state.proc = p => procs'[p].st # "alive"]_vars

C11_ThreeReasons ==
  \A c \in Callers :
    results[c].op = "ensure"
      => results[c].res \in {"ok", "not configured", "circuit open", "not ready"}

\* C12: the step in which stop() or restart() sends the termination signal has
\* cleared the health timer before the signal was sent and leaves it cleared;
\* afterwards the timer is set again only by a step that spawns a process, and
\* a health probe begins only while the timer is set.
C12_MonitorCancelledFirst ==
  [][/\ \A p \in Pids :
          (~procs[p].termed /\ procs'[p].termed)
            => (~procs'[p].monitored /\ state'.healthCheckTimer = NoTime)
     /\ (state.healthCheckTimer = NoTime /\ state'.healthCheckTimer # NoTime)
          => spawnCount' > spawnCount
     /\ (probe = "idle" /\ probe' = "inflight") => state.healthCheckTimer # NoTime]_vars

C12_Witness ==
  /\ state.healthCheckTimer = NoTime
  /\ state.lastHealthCheck # NoTime
  /\ \E p \in Pids : procs[p].st = "alive" /\ procs[p].termed /\ procs[p].listening
  /\ \E c \in Callers : tasks[c].pc = "sleep" /\ tasks[c].op = "stop"
  /\ \E c \in Callers : tasks[c].pc = "sleep" /\ tasks[c].op = "restart"

\* C13: a health probe that completes while no process is registered (the
\* process exited or was stopped while the probe was in flight) changes neither
\* consecutiveFails nor lastHealthCheck.
C13_ExitWinsOverProbe ==
  [][(probe = "inflight" /\ probe' = "idle" /\ state.proc = NULL)
       => /\ state'.consecutiveFails = state.consecutiveFails
          /\ state'.lastHealthCheck = state.lastHealthCheck]_vars

\* C14: a health probe that fails changes nothing of the supervisor state
\* (circuitOpen, circuitOpenedAt, crashHistory, consecutiveFails,
\* lastHealthCheck, the process handle) and nothing of the processes.
C14_FailedProbeLogsOnly ==
  [][probed' = "failed"
       => (state' = state /\ procs' = procs /\ startOp' = startOp
           /\ spawnCount' = spawnCount)]_vars

C14_Witness ==
  /\ probed = "failed"
  /\ state.proc # NULL
  /\ ~state.circuitOpen
  /\ Len(state.crashHistory) = MAX_CRASHES_IN_WINDOW - 1
  /\ state.consecutiveFails > 0

C16_SlotClearedAfterExit ==
  [][\A c \in Callers :
       (tasks[c].pc = "sleep" /\ tasks'[c].pc # "sleep")
         => \A p \in Pids : state.proc = p => procs'[p].st # "alive"]_vars

\* the output of the call contains the timeout marker
HasMarker == \E i \in 1..Len(cmd.out) : cmd.out[i] = "[timeout]"

\* C17: a call of run resolves with 127 when the process could not be spawned,
\* with 124 when the timeout fired before the close, else with the exit code of
\* the process when it has one, else (death by a signal) with 1; it resolves
\* with 0 only when the process exited with code 0.
C17_ExitCodeMapping ==
  /\ cmd.pc = "errored" => cmd.code = 127
  /\ cmd.pc = "closed" =>
       /\ cmd.errored => cmd.code = 127
       /\ (~cmd.errored /\ cmd.killed) => cmd.code = 124
       /\ (~cmd.errored /\ ~cmd.killed /\ cmd.closed.code # -1)
            => cmd.code = cmd.closed.code
       /\ (~cmd.errored /\ ~cmd.killed /\ cmd.closed.code = -1) => cmd.code = 1
       /\ cmd.code = 0 => cmd.closed.code = 0

C17_Witness ==
  /\ cmd.pc = "closed"
  /\ cmd.closed = [code |-> -1, signal |-> "SIGTERM"]
  /\ cmd.timeoutMs > 0
  /\ ~cmd.killed
  /\ cmd.code = 1
  /\ Len(cmd.out) = MaxOut

\* C18 as the spec states it: when the timer fires before the close the process
\* is force-killed and the call resolves with 124 and the marker in its output;
\* when the command closes first the timer is cancelled, the marker is not in
\* the output and the code is not 124.
C18_TimeoutOrNot ==
  cmd.pc = "closed" =>
    /\ ~cmd.timer
    /\ cmd.killed => (cmd.sigkill /\ cmd.code = 124 /\ HasMarker)
    /\ ~cmd.killed => (~HasMarker /\ cmd.code # 124)

\* C18 as amended: the same, but a command that closes before the timer fires
\* resolves with 124 exactly when its own exit code is 124.
C18_TimeoutOrOwnCode ==
  cmd.pc = "closed" =>
    /\ ~cmd.timer
    /\ cmd.killed => (cmd.sigkill /\ cmd.code = 124 /\ HasMarker)
    /\ ~cmd.killed => (~HasMarker /\ (cmd.code = 124 <=> cmd.closed.code = 124))

C18_Witness ==
  /\ cmd.pc = "closed"
  /\ cmd.killed
  /\ cmd.closed = [code |-> -1, signal |-> "SIGKILL"]
  /\ cmd.code = 124
  /\ cmd.out = <<"data", "[timeout]", "data">>

\* C19: the headers of every request the proxy sends to the gateway on the HTTP
\* path contain none of connection, keep-alive, proxy-authenticate,
\* proxy-authorization, te, trailers, transfer-encoding, upgrade.
C19_NoHopByHop ==
  (proxy.pc = "sent" /\ proxy.leg = "http") =>
    \A n \in {"connection", "keep-alive", "proxy-authenticate", "proxy-authorization",
              "te", "trailers", "transfer-encoding", "upgrade"} :
      n \notin DOMAIN proxy.out

\* a request with "Connection: keep-alive, upgrade" and a Keep-Alive header has
\* been forwarded
C19_Witness ==
  /\ proxy.pc = "sent"
  /\ proxy.leg = "http"
  /\ DOMAIN proxy.req.headers = {"connection", "keep-alive"}
  /\ proxy.req.headers["connection"] = <<"keep-alive", "upgrade">>
  /\ proxy.req.method = "POST"

\* the header names of the model that begin with "x-forwarded-"
XForwardedNames ==
  {"x-forwarded-for", "x-forwarded-proto", "x-forwarded-host", "x-forwarded-port",
   "x-forwarded-by"}

\* C20: the request sent to the gateway carries no X-Forwarded-* header, whether
\* the client sent it or the proxy added it, on the HTTP path and in the
\* WebSocket handshake with the gateway.
C20_NoForwardedHeaders ==
  proxy.pc = "sent" => DOMAIN proxy.out \cap XForwardedNames = {}

\* C21: the request sent to the gateway carries "Bearer <token>" as its
\* Authorization when the inbound request has no Authorization header, and
\* the inbound request's own Authorization value unchanged when it has one,
\* on the HTTP path and on the WebSocket path.
C21_TokenIffNoAuthorization ==
  proxy.pc = "sent" =>
    /\ has(proxy.out, "authorization")
    /\ proxy.out["authorization"] =
         IF has(proxy.req.headers, "authorization")
           THEN proxy.req.headers["authorization"]
           ELSE <<BearerToken>>

\* the X-Forwarded-For of a header set, <<>> when there is none
ForwardedFor(h) == IF has(h, "x-forwarded-for") THEN h["x-forwarded-for"] ELSE <<>>

\* C22: the headers built for a request from a known peer carry the inbound
\* X-Forwarded-For with the peer's IP appended, or unchanged when the peer's IP
\* is already one of its entries; appending the same IP to the result again
\* changes nothing.
C22_ForwardedForAppendsOnce ==
  (proxy.pc = "upgraded" /\ proxy.req.remoteIp = PeerIp) =>
    /\ ForwardedFor(proxy.ws) =
         IF \E i \in 1..Len(ForwardedFor(proxy.req.headers)) :
              ForwardedFor(proxy.req.headers)[i] = PeerIp
           THEN ForwardedFor(proxy.req.headers)
           ELSE ForwardedFor(proxy.req.headers) \o <<PeerIp>>
    /\ withForwardedFor(proxy.ws, PeerIp) = proxy.ws

\* an upgrade request from the peer whose X-Forwarded-For already ends with the
\* peer's IP has had its headers built
C22_Witness ==
  /\ proxy.pc = "upgraded"
  /\ proxy.req.remoteIp = PeerIp
  /\ ForwardedFor(proxy.req.headers) = <<"10.0.0.2", PeerIp>>
  /\ ForwardedFor(proxy.ws) = <<"10.0.0.2", PeerIp>>

\* C23: when ensureGatewayRunning reports ok:false to a WebSocket upgrade, the
\* upgrade is answered with 503: the client socket is not upgraded and no
\* socket to the gateway is opened.
C23_UpgradeFailsWhenNotReady ==
  (proxy.leg = "ws" /\ proxy.ensured = "failed") =>
    (proxy.pc = "responded" /\ proxy.status = "503")

\* the request has been sent on to the gateway, or its socket upgraded
Forwarded == proxy.pc \in {"upgraded", "sent"}

\* the request went through the password gate: DEV_MODE opened it, or the
\* request carries the setup password
ThroughGate ==
  \/ proxy.gate = "dev"
  \/ /\ proxy.gate = "password"
     /\ has(proxy.req.headers, "authorization")
     /\ proxy.req.headers["authorization"] = <<"Basic setup-password">>

LastFrame == [type |-> bridge'.last.type, data |-> bridge'.last.data]

\* C24: while the pair of client 1 is registered and its socket to the gateway
\* is open, a frame received from the client is passed to gatewayWs.send and a
\* frame received from the gateway to ws.send, once, after the frames sent
\* before it and with its type and bytes unchanged; nothing else is ever sent.
C24_FramesRelayed ==
  [][ /\ (1 \in bridge.wsConnections /\ bridge.socks[1].gw = "open"
          /\ bridge'.last.from = "client") =>
            /\ bridge'.socks[1].toGw = Append(bridge.socks[1].toGw, LastFrame)
            /\ bridge'.socks[1].toClient = bridge.socks[1].toClient
      /\ (1 \in bridge.wsConnections /\ bridge.socks[1].gw = "open"
          /\ bridge'.last.from = "gw") =>
            /\ bridge'.socks[1].toClient = Append(bridge.socks[1].toClient, LastFrame)
            /\ bridge'.socks[1].toGw = bridge.socks[1].toGw
      /\ bridge'.last.from = "none" =>
            /\ bridge'.socks[1].toGw = bridge.socks[1].toGw
            /\ bridge'.socks[1].toClient = bridge.socks[1].toClient
    ]_vars

\* the client sent two binary frames through the open bridge and an echoing
\* gateway sent them back: both were passed on in order
C24_Witness ==
  /\ 1 \in bridge.wsConnections
  /\ bridge.socks[1].client = "open"
  /\ bridge.socks[1].gw = "open"
  /\ bridge.socks[1].toGw = <<[type |-> "binary", data |-> "a"], [type |-> "binary", data |-> "b"]>>
  /\ bridge.socks[1].toClient = bridge.socks[1].toGw

\* C25: once the client socket of a bridge has closed, its socket to the
\* gateway is eventually closed (or was never made), and once the socket to
\* the gateway has closed, the client socket is eventually closed.
C25_OtherSideCloses ==
  \A c \in Sockets :
    /\ (bridge.socks[c].client = "closed") ~> (bridge.socks[c].gw \in {"none", "closed"})
    /\ (bridge.socks[c].gw = "closed") ~> (bridge.socks[c].client = "closed")

\* C26: wsConnections holds an entry for a client only while the socket to the
\* gateway is open, and never for a client socket that has closed.
C26_NoEntryAfterClose ==
  \A c \in Sockets :
    c \in bridge.wsConnections =>
      (bridge.socks[c].gw = "open" /\ bridge.socks[c].client # "closed")

\* C28: state.starting is stored exactly while a start operation is executing;
\* a call that awaited it resumes only in a step that has cleared it and ended
\* the operation; and a call creates a start operation (a backoff or a spawn of
\* its own) only when none is stored.
C28_StartingWhileStartRuns ==
  [][ /\ state.starting <=> (startOp.pc # "none")
      /\ state'.starting <=> (startOp'.pc # "none")
      /\ \A c \in Callers :
           (tasks[c].pc = "await" /\ tasks'[c].pc # "await")
             => (state.starting /\ ~state'.starting /\ startOp' = NoStart)
      /\ \A c \in Callers :
           (tasks[c].pc # "await" /\ tasks'[c].pc = "await"
              /\ (startOp' # startOp \/ spawnCount' # spawnCount))
             => ~state.starting ]_vars

\* every call awaited one start operation, which failed and was cleared
C28_Witness ==
  /\ \A c \in Callers : results[c].res = "not ready"
  /\ ~state.starting
  /\ startOp = NoStart

\* C29: the health monitor runs only for a process whose readiness has been
\* confirmed: while the start operation is still polling a process that has never
\* answered, no health timer is set.
C29_MonitorOnlyAfterReady ==
  (startOp.pc = "polling" /\ state.proc # NULL /\ ~procs[state.proc].listening)
    => state.healthCheckTimer = NoTime

\* C30: a step that records a crash (it leaves a new entry of age 0 at the end
\* of crashHistory) leaves the history ordered by time, oldest first, with every
\* entry younger than the crash window; it opens the circuit, stamped now, when
\* the pruned history has reached the threshold, and otherwise opens nothing.
C30_RecordedCrash ==
  [][ LET h == state'.crashHistory IN
      (h # state.crashHistory /\ Len(h) > 0 /\ h[Len(h)] = 0)
        => /\ \A i \in 1..Len(h) : h[i] >= 0 /\ h[i] < CRASH_WINDOW_MS
           /\ \A i, j \in 1..Len(h) : i <= j => h[i] >= h[j]
           /\ Len(h) >= MAX_CRASHES_IN_WINDOW
                => (state'.circuitOpen /\ state'.circuitOpenedAt = 0)
           /\ Len(h) < MAX_CRASHES_IN_WINDOW
                => (state'.circuitOpen
                      => (state.circuitOpen
                            /\ state'.circuitOpenedAt = state.circuitOpenedAt)) ]_vars

\* the fifth crash of one window has just opened the circuit, over a history
\* whose oldest entry is one tick old
C30_Witness ==
  /\ Len(state.crashHistory) = MAX_CRASHES_IN_WINDOW
  /\ state.crashHistory[1] = 1
  /\ state.crashHistory[MAX_CRASHES_IN_WINDOW] = 0
  /\ state.circuitOpen
  /\ state.circuitOpenedAt = 0

\* C31: the health timer is alive only while a process is registered: whenever
\* healthCheckTimer is set, state.proc is not null.
C31_TimerImpliesProc == state.healthCheckTimer # NoTime => state.proc # NULL

\* the bound E of the backoff after n consecutive failures
BackoffBound(n) == Min(BASE_BACKOFF_MS * (2 ^ n), MAX_BACKOFF_MS)

\* C32: a start sleeps before spawning exactly when consecutiveFails > 0; the
\* sleep lies between E and E plus 30% of E for E = min(base * 2^n, max), and E
\* does not decrease with n and does not exceed max.
C32_BackoffBounds ==
  /\ backoff.pc = "sleep" => backoff.fails > 0
  /\ backoff.pc = "spawn" => (backoff.fails = 0 /\ backoff.ms = NoTime)
  /\ backoff.pc = "sleep" =>
       /\ BackoffBound(backoff.fails) <= backoff.ms
       /\ 10 * backoff.ms <= 13 * BackoffBound(backoff.fails)
       /\ BackoffBound(backoff.fails) <= BackoffBound(backoff.fails + 1)
       /\ BackoffBound(backoff.fails) <= MAX_BACKOFF_MS

\* a start after enough failures for the cap to apply sleeps, with the largest
\* jitter, for longer than the cap
C32_Witness ==
  /\ backoff.pc = "sleep"
  /\ BASE_BACKOFF_MS * (2 ^ backoff.fails) > MAX_BACKOFF_MS
  /\ backoff.random = JitterSteps - 1
  /\ backoff.ms > MAX_BACKOFF_MS

\* C33: at most one process spawned by the supervisor is alive at any time.
C33_AtMostOneProcess == Cardinality({p \in Pids : procs[p].st = "alive"}) <= 1

\* C34: the exit of a superseded process (state.proc refers to a newer one)
\* leaves the handle, the health timer, consecutiveFails and crashHistory as
\* they were.
C34_SupersededExit ==
  [][\A p \in Pids :
       (procs[p].st = "alive" /\ procs'[p].st = "none" /\ state.proc \notin {NULL, p})
         => /\ state'.proc = state.proc
            /\ state'.healthCheckTimer = state.healthCheckTimer
            /\ state'.consecutiveFails = state.consecutiveFails
            /\ state'.crashHistory = state.crashHistory]_vars

\* C35: a single spawn contributes at most one increment of consecutiveFails
\* and at most one crashHistory entry: while only one process has been spawned,
\* neither exceeds one.
C35_CountedOnce ==
  spawnCount = 1 => (state.consecutiveFails <= 1 /\ Len(state.crashHistory) <= 1)

\* C36: the exit of a process that stop() or restart() terminated is not counted
\* as a failure, whatever code or signal it reports: consecutiveFails does not
\* increase, crashHistory gets no entry and the circuit does not open.
C36_StopNotCounted ==
  [][\A p \in Pids :
       (procs[p].st = "alive" /\ procs[p].termed /\ procs'[p].st = "none")
         => /\ state'.consecutiveFails <= state.consecutiveFails
            /\ state'.crashHistory = state.crashHistory
            /\ (state'.circuitOpen => state.circuitOpen)]_vars

\* C37: in a state that stop() has just returned to, no process is alive, and
\* the next step spawns none unless it is a call that begins a start.
C37_StoppedStaysStopped ==
  [][ (\E c \in Callers : results[c].op = "stop")
        => /\ \A p \in Pids : procs[p].st # "alive"
           /\ spawnCount' # spawnCount
                => \E c \in Callers : tasks[c].pc # "await" /\ tasks'[c].pc = "await" ]_vars

\* caller c makes a call of ensureGatewayRunning() in this step
EnsureStep(c) ==
  /\ tasks[c].pc = "idle"
  /\ \/ results'[c].op = "ensure"
     \/ (tasks'[c].pc = "await" /\ tasks'[c].op = "ensure")

\* no process is running, the circuit is closed and consecutiveFails >= 3
LockedOut ==
  /\ state.proc = NULL
  /\ \A p \in Pids : procs[p].st # "alive"
  /\ ~state.circuitOpen
  /\ state.consecutiveFails >= MAX_CONSECUTIVE_FAILS

\* the counter leaves the lockout only by restartGateway(), resetCircuitBreaker()
\* or a health success
LockoutLasts ==
  (LockedOut /\ state'.consecutiveFails < MAX_CONSECUTIVE_FAILS)
    => \/ \E c \in Callers : tasks[c].pc = "idle" /\ "restart" \in {tasks'[c].op, results'[c].op}
       \/ results'[0].op = "reset"
       \/ probed' = "ok"

C39_OpenedAtKept ==
  [][ (state.circuitOpen /\ state'.circuitOpen)
        => state'.circuitOpenedAt >= state.circuitOpenedAt ]_vars

\* C40: a request that passed the gate by its Basic credentials is sent to the
\* gateway with an Authorization that is not those credentials.
C40_NoBasicToGateway ==
  (proxy.pc = "sent" /\ proxy.gate = "password")
    => (has(proxy.out, "authorization")
          /\ proxy.out["authorization"] # <<"Basic setup-password">>)

====
